---- MODULE Spec2Model ----
(***************************************************************************)
(* wayvnc screencopy: the capture-session state machine of                 *)
(* src/src/screencopy-interface.c.  The file holds the capture dispatcher  *)
(* (lines 28-58) and two dialects of the ext-screencopy backend:           *)
(*   - the session-oriented dialect (lines 101-489): buffers are attached  *)
(*     to the long-lived session object, definitions prefixed Sess_;       *)
(*   - the frame-based dialect (lines 532-945): every capture is its own   *)
(*     frame object, definitions prefixed Frame_.                          *)
(* One handle is modelled; which dialect is built is chosen in Init.       *)
(* Spec has the entry points and the constraint, ready and failed events;  *)
(* DamageSpec adds the damage events and CursorSpec the cursor events.     *)
(***************************************************************************)
EXTENDS Integers, Sequences, FiniteSets, TLC

\* ---------------------------------------------------------------- bounds
\* number of start calls a run may make
MaxStarts == 2
\* number of rectangles in a buffer's requested-damage region
MaxRects == 1

\* ------------------------------------------------- compositor input domains
ShmFormats == {1}
DrmFormats == {2}
Widths  == {1, 2}
Heights == {1}
\* the rectangles a damage event may name
DamageRects == {1, 2}

VARIABLES
    dialect,      \* "session" | "frame": which backend is compiled in
    dmabuf_build, \* ENABLE_SCREENCOPY_DMABUF defined at build time
    handle,       \* "none" | "live" | "null" (create returned NULL) |
                  \* "wlr" (a handle of the older backend) | "destroyed"
    self,         \* struct ext_screencopy
    pool,         \* the wv_buffer_pool of the handle
    committed,    \* compositor: captures committed on the open session/frame
                  \* whose ready/failed event is still to be delivered
    neg,          \* compositor: constraint events sent since the last done
    bufs,         \* fate of every buffer acquired: [d |-> delivered, r |-> released]
    nStarts,      \* start calls made
    nCallbacks,   \* on_done invocations
    ops,          \* the entry point or handler that ran last, then the
                  \* requests, pool calls and callbacks it issued, in order
    sessionDone,  \* compositor: the open session has ended a constraint round
    prevFailed,   \* "none", or the reason of the failed event handled just
                  \* before the handler that ran last
    cursors,      \* compositor: cursor sessions opened and not destroyed
    drmSeen,      \* compositor: a hardware format was advertised to the handle
    frame_damage, \* the frame-damage region of every buffer the session has
                  \* acquired and not yet delivered or released
    sent,         \* compositor: damage rectangles sent since the capture that
                  \* is outstanding was committed
    fault         \* "none" | "assert" | "null_deref" | "use_after_free"

vars == <<dialect, dmabuf_build, handle, self, pool, committed, neg, bufs,
          nStarts, nCallbacks, ops, sessionDone, prevFailed, cursors, drmSeen,
          frame_damage, sent, fault>>

Op(o, a) == [op |-> o, arg |-> a]
Bit(b) == IF b THEN 1 ELSE 0

\* struct ext_screencopy after calloc
ZeroSelf ==
    [session |-> "null", frame |-> "null", cursor |-> "null",
     capture_cursor |-> FALSE, enable_linux_dmabuf |-> FALSE,
     buffer |-> 0,
     have_buffer_info |-> FALSE, should_start |-> FALSE,
     shall_be_immediate |-> FALSE,
     width |-> 0, height |-> 0, wl_shm_stride |-> 0, wl_shm_format |-> 0,
     have_wl_shm |-> FALSE, have_linux_dmabuf |-> FALSE, dmabuf_format |-> 0]

NoPool  == [alive |-> FALSE, type |-> "unspec", width |-> 0, height |-> 0,
            stride |-> 0, format |-> 0]
\* wv_buffer_pool_create(0, 0, 0, 0, 0)
NewPool == [NoPool EXCEPT !.alive = TRUE]

NoNeg == [shm |-> FALSE, drm |-> FALSE, dims |-> FALSE]

Init ==
    /\ dialect \in {"session", "frame"}
    /\ dmabuf_build \in BOOLEAN
    /\ handle = "none"
    /\ self = ZeroSelf
    /\ pool = NoPool
    /\ committed = 0
    /\ neg = NoNeg
    /\ bufs = <<>>
    /\ nStarts = 0
    /\ nCallbacks = 0
    /\ ops = <<>>
    /\ sessionDone = FALSE
    /\ prevFailed = "none"
    /\ cursors = 0
    /\ drmSeen = FALSE
    /\ frame_damage = <<>>
    /\ sent = {}
    /\ fault = "none"

\* the fields of struct ext_screencopy and the values they take
TypeOK ==
    /\ dialect \in {"session", "frame"}
    /\ dmabuf_build \in BOOLEAN
    /\ handle \in {"none", "live", "null", "wlr", "destroyed"}
    /\ self.session \in {"null", "open", "closed"}
    /\ self.frame \in {"null", "open"}
    /\ self.cursor \in {"null", "open"}
    /\ self.buffer \in 0..Len(bufs)
    /\ self.capture_cursor \in BOOLEAN /\ self.enable_linux_dmabuf \in BOOLEAN
    /\ self.have_buffer_info \in BOOLEAN /\ self.should_start \in BOOLEAN
    /\ self.shall_be_immediate \in BOOLEAN
    /\ self.width \in {0} \cup Widths /\ self.height \in {0} \cup Heights
    /\ self.wl_shm_stride = self.width * 4
    /\ self.wl_shm_format \in {0} \cup ShmFormats
    /\ self.dmabuf_format \in {0} \cup DrmFormats
    /\ self.have_wl_shm \in BOOLEAN /\ self.have_linux_dmabuf \in BOOLEAN
    /\ pool.alive \in BOOLEAN /\ pool.type \in {"unspec", "shm", "dmabuf"}
    /\ committed \in 0..MaxStarts
    /\ nStarts \in 0..MaxStarts /\ nCallbacks \in 0..MaxStarts
    /\ sessionDone \in BOOLEAN
    /\ prevFailed \in {"none", "ordinary", "invalid"}
    /\ cursors \in 0..(MaxStarts + 1)
    /\ drmSeen \in BOOLEAN
    /\ DOMAIN frame_damage \subseteq 1..Len(bufs)
    /\ \A b \in DOMAIN frame_damage : frame_damage[b] \subseteq DamageRects
    /\ sent \subseteq DamageRects
    /\ fault \in {"none", "assert", "null_deref", "use_after_free"}

Live == handle = "live" /\ fault = "none"

\* what ran last, and with which argument
Handler == IF ops = <<>> THEN "none" ELSE ops[1].op
HandlerArg == IF ops = <<>> THEN 0 ELSE ops[1].arg
HasOp(o) == \E i \in 1..Len(ops) : ops[i].op = o
CountOp(o) == Cardinality({i \in 1..Len(ops) : ops[i].op = o})
Pos(o) == CHOOSE i \in 1..Len(ops) : ops[i].op = o

ReasonCode(reason) == IF reason = "invalid" THEN 1 ELSE 0
Track ==
    prevFailed' = IF Handler = "failed" /\ HasOp("on_done_failed")
                  THEN (IF HandlerArg = 1 THEN "invalid" ELSE "ordinary")
                  ELSE "none"

\* ------------------------------------------------------ session (re)opening
\* Result of ext_screencopy_init_session on struct value s:
\*   self: the struct afterwards, ops: what was issued, ret: 0 or -1,
\*   closed: an open protocol session was destroyed, fault: "none" or the
\*   fault the call runs into.

\* Session-oriented dialect.  The old session is destroyed but the pointer is
\* kept (line 129-130), so on an early return self->session dangles.
Sess_ext_screencopy_init_session(s, srcOk, curOk, sessOk) ==
    LET had  == s.session # "null"
        s1   == IF had THEN [s EXCEPT !.session = "closed"] ELSE s
        ops1 == IF had THEN <<Op("session_destroy", 0)>> ELSE <<>>
        flt  == IF s.session = "closed" THEN "use_after_free" ELSE "none"
        was  == s.session = "open"
    IN  IF flt # "none"
        THEN [self |-> s1, ops |-> ops1, ret |-> -1, closed |-> FALSE, fault |-> flt]
        ELSE IF ~srcOk
        THEN [self |-> s1, ops |-> ops1 \o <<Op("create_source", 0)>>,
              ret |-> -1, closed |-> was, fault |-> "none"]
        ELSE IF s.capture_cursor
        THEN IF ~curOk
             THEN [self |-> [s1 EXCEPT !.cursor = "null"],
                   ops |-> ops1 \o <<Op("create_source", 1), Op("capture_cursor", 0),
                                     Op("source_destroy", 0)>>,
                   ret |-> -1, closed |-> was, fault |-> "none"]
             ELSE [self |-> [s1 EXCEPT !.cursor = "open",
                                       !.session = IF sessOk THEN "open" ELSE "null"],
                   ops |-> ops1 \o <<Op("create_source", 1), Op("capture_cursor", 1),
                                     Op("source_destroy", 0),
                                     Op("get_screencopy_session", IF sessOk THEN 1 ELSE 0)>>
                           \o (IF sessOk THEN <<Op("session_add_listener", 0),
                                                Op("cursor_add_listener", 0)>>
                                         ELSE <<>>),
                   ret |-> IF sessOk THEN 0 ELSE -1, closed |-> was, fault |-> "none"]
        ELSE [self |-> [s1 EXCEPT !.session = IF sessOk THEN "open" ELSE "null"],
              ops |-> ops1 \o <<Op("create_source", 1),
                                Op("capture", IF sessOk THEN 1 ELSE 0),
                                Op("source_destroy", 0)>>
                      \o (IF sessOk THEN <<Op("session_add_listener", 0)>> ELSE <<>>),
              ret |-> IF sessOk THEN 0 ELSE -1, closed |-> was, fault |-> "none"]

\* Frame-based dialect: frame and session are destroyed and nulled first.
Frame_ext_screencopy_init_session(s, srcOk, curOk, sessOk) ==
    LET ops0 == IF s.frame # "null" THEN <<Op("frame_destroy", 0)>> ELSE <<>>
        ops1 == ops0 \o (IF s.session # "null" THEN <<Op("session_destroy", 0)>>
                                               ELSE <<>>)
        was  == s.session = "open"
        s1   == [s EXCEPT !.frame = "null", !.session = "null"]
    IN  IF ~srcOk
        THEN [self |-> s1, ops |-> ops1 \o <<Op("create_source", 0)>>,
              ret |-> -1, closed |-> was, fault |-> "none"]
        ELSE [self |-> [s1 EXCEPT !.session = IF sessOk THEN "open" ELSE "null"],
              ops |-> ops1 \o <<Op("create_source", 1),
                                Op("create_session", IF sessOk THEN 1 ELSE 0),
                                Op("source_destroy", 0)>>
                      \o (IF sessOk THEN <<Op("session_add_listener", 0)>> ELSE <<>>),
              ret |-> IF sessOk THEN 0 ELSE -1, closed |-> was, fault |-> "none"]

init_session(s, srcOk, curOk, sessOk) ==
    IF dialect = "session"
    THEN Sess_ext_screencopy_init_session(s, srcOk, curOk, sessOk)
    ELSE Frame_ext_screencopy_init_session(s, srcOk, curOk, sessOk)

\* ------------------------------------------------------------------ create
\* the cursor sessions an init_session call opened at the compositor
CursorsOpened(o) ==
    Cardinality({i \in 1..Len(o) : o[i] = Op("capture_cursor", 1)})

\* ext_screencopy_create / ext_screencopy_create_cursor: calloc, pool create,
\* init_session; on failure the pool is destroyed and NULL is returned.
\* pre is the dispatcher call that led here.
CreateHandle(pre, cursorMode, dmabuf, srcOk, curOk, sessOk) ==
    LET s0 == [ZeroSelf EXCEPT !.capture_cursor = cursorMode,
                               !.enable_linux_dmabuf = dmabuf]
        r  == init_session(s0, srcOk, curOk, sessOk)
        o0 == pre \o <<Op("create", Bit(cursorMode)), Op("pool_create", 0)>>
    IN  /\ handle = "none"
        /\ fault = "none"
        /\ IF r.ret < 0
           THEN /\ handle' = "null"
                /\ self' = ZeroSelf
                /\ pool' = NoPool
                /\ ops' = o0 \o r.ops \o <<Op("pool_destroy", 0), Op("free", 0)>>
           ELSE /\ handle' = "live"
                /\ self' = r.self
                /\ pool' = NewPool
                /\ ops' = o0 \o r.ops
        /\ cursors' = cursors + CursorsOpened(r.ops)
        /\ neg' = NoNeg
        /\ sessionDone' = FALSE
        /\ Track
        /\ UNCHANGED <<dialect, dmabuf_build, committed, bufs, nStarts,
                       nCallbacks, drmSeen, frame_damage, sent, fault>>

ext_screencopy_create(pre) ==
    \E dmabuf \in BOOLEAN, srcOk \in BOOLEAN, sessOk \in BOOLEAN :
        CreateHandle(pre, FALSE, dmabuf, srcOk, TRUE, sessOk)

ext_screencopy_create_cursor(pre) ==
    \E dmabuf \in BOOLEAN, srcOk \in BOOLEAN, curOk \in BOOLEAN, sessOk \in BOOLEAN :
        /\ dialect = "frame" => curOk
        /\ CreateHandle(pre, TRUE, dmabuf, srcOk, curOk, sessOk)

\* -------------------------------------------------------------- dispatcher
\* the globals screencopy_create reads: ext_screencopy_manager,
\* ext_image_source_manager and screencopy_manager, each set or NULL
Advertised(extMgr, srcMgr, wlrMgr) ==
    4 * Bit(extMgr) + 2 * Bit(srcMgr) + Bit(wlrMgr)

\* faulty variant: the image-source manager is not looked at
Backend_Mut(extMgr, srcMgr, wlrMgr) ==
    IF extMgr THEN "ext" ELSE IF wlrMgr THEN "wlr" ELSE "null"

\* the implementation screencopy_create hands the call to
Backend(extMgr, srcMgr, wlrMgr) ==
    IF extMgr /\ srcMgr THEN "ext" ELSE IF wlrMgr THEN "wlr" ELSE "null"

\* no create was called: the dispatcher itself returns NULL
NoHandle(pre) ==
    /\ handle = "none"
    /\ fault = "none"
    /\ handle' = "null"
    /\ ops' = pre
    /\ Track
    /\ UNCHANGED <<dialect, dmabuf_build, self, pool, committed, neg, bufs,
                   nStarts, nCallbacks, sessionDone, cursors, drmSeen,
                   frame_damage, sent, fault>>

\* wlr_screencopy_impl.create: the handle of the older backend, or NULL
wlr_screencopy_create(pre) ==
    \E ok \in BOOLEAN :
        /\ handle = "none"
        /\ fault = "none"
        /\ handle' = IF ok THEN "wlr" ELSE "null"
        /\ ops' = pre \o <<Op("wlr_create", Bit(ok))>>
        /\ Track
        /\ UNCHANGED <<dialect, dmabuf_build, self, pool, committed, neg, bufs,
                       nStarts, nCallbacks, sessionDone, cursors, drmSeen,
                       frame_damage, sent, fault>>

screencopy_create ==
    \E extMgr \in BOOLEAN, srcMgr \in BOOLEAN, wlrMgr \in BOOLEAN :
        LET pre == <<Op("screencopy_create", Advertised(extMgr, srcMgr, wlrMgr))>>
            impl == Backend(extMgr, srcMgr, wlrMgr)
        IN  CASE impl = "ext" -> ext_screencopy_create(pre)
              [] impl = "wlr" -> wlr_screencopy_create(pre)
              [] OTHER        -> NoHandle(pre)

\* faulty variant: without a cursor entry point the plain create is used
CursorEntry_Mut(hasEntry) == IF hasEntry THEN "create_cursor" ELSE "create"

\* impl->create_cursor ? impl->create_cursor(output) : NULL
CursorEntry(hasEntry) == IF hasEntry THEN "create_cursor" ELSE "null"

\* hasEntry: the implementation passed in has a create_cursor entry
\* (ext_screencopy_impl has one)
screencopy_create_cursor ==
    \E hasEntry \in BOOLEAN :
        LET pre == <<Op("screencopy_create_cursor", Bit(hasEntry))>>
            call == CursorEntry(hasEntry)
        IN  CASE call = "create_cursor" -> ext_screencopy_create_cursor(pre)
              [] call = "create"        -> ext_screencopy_create(pre)
              [] OTHER                  -> NoHandle(pre)

\* -------------------------------------------------------- capture scheduling
\* EXT_SCREENCOPY_SESSION_V1_OPTIONS_ON_DAMAGE
ON_DAMAGE == 1

\* faulty variant: the loop stops one rectangle short
DamageOps_Mut(n) == [i \in 1..(n - 1) |-> Op("damage_buffer", i)]

\* one damage_buffer request per rectangle, n being the n_rects that
\* pixman_region_rectangles returned for the buffer's buffer_damage
DamageOps(n) == [i \in 1..n |-> Op("damage_buffer", i)]

\* the flags of ext_screencopy_session_v1_commit
CommitFlags(immediate) == IF ~immediate THEN ON_DAMAGE ELSE 0

\* Result of ext_screencopy_schedule_capture(self, immediate) on struct value
\* s, the acquired buffer having nRects rectangles of requested damage:
\*   self, ops, fault as above, acquired: a buffer was taken from the pool,
\*   commits: captures committed to the compositor.

\* Session-oriented dialect: no check that a capture is already in flight.
Sess_ext_screencopy_schedule_capture(s, immediate, nRects) ==
    LET b    == Len(bufs) + 1
        s1   == [s EXCEPT !.buffer = b]
        ops1 == <<Op("schedule_capture", Bit(immediate)),
                  Op("pool_acquire", b),
                  Op("set_domain", Bit(s.capture_cursor))>>
    IN  IF s.session # "open"
        THEN [self |-> s1, ops |-> ops1, acquired |-> TRUE, commits |-> 0,
              fault |-> IF s.session = "null" THEN "null_deref"
                                              ELSE "use_after_free"]
        ELSE [self |-> s1,
              ops |-> ops1 \o <<Op("attach_buffer", b),
                                Op("region_rectangles", nRects)>>
                      \o DamageOps(nRects)
                      \o <<Op("commit", CommitFlags(immediate))>>,
              acquired |-> TRUE, commits |-> 1, fault |-> "none"]

\* Frame-based dialect: assert(!self->frame) first; the capture request
\* carries no option, immediate is only logged.
Frame_ext_screencopy_schedule_capture(s, immediate, nRects) ==
    LET b    == Len(bufs) + 1
        s1   == [s EXCEPT !.buffer = b]
        ops1 == <<Op("schedule_capture", Bit(immediate)),
                  Op("pool_acquire", b),
                  Op("set_domain", Bit(s.capture_cursor))>>
    IN  IF s.frame # "null"
        THEN [self |-> s, ops |-> <<Op("schedule_capture", Bit(immediate))>>,
              acquired |-> FALSE, commits |-> 0, fault |-> "assert"]
        ELSE IF s.session # "open"
        THEN [self |-> s1, ops |-> ops1, acquired |-> TRUE, commits |-> 0,
              fault |-> "null_deref"]
        ELSE [self |-> [s1 EXCEPT !.frame = "open"],
              ops |-> ops1 \o <<Op("create_frame", 1), Op("attach_buffer", b),
                                Op("frame_add_listener", 0),
                                Op("region_rectangles", nRects)>>
                      \o DamageOps(nRects) \o <<Op("frame_capture", 0)>>,
              acquired |-> TRUE, commits |-> 1, fault |-> "none"]

schedule_capture(s, immediate, nRects) ==
    IF dialect = "session"
    THEN Sess_ext_screencopy_schedule_capture(s, immediate, nRects)
    ELSE Frame_ext_screencopy_schedule_capture(s, immediate, nRects)

NewBuf == [d |-> 0, r |-> 0]

\* frame_damage once buffer b is taken from the pool (its regions are empty),
\* and once b has left the session
Taken(b)   == frame_damage @@ (b :> {})
Dropped(b) == [x \in (DOMAIN frame_damage) \ {b} |-> frame_damage[x]]

\* ------------------------------------------------------------------- start
ext_screencopy_start(immediate) ==
    /\ Live
    /\ nStarts < MaxStarts
    /\ nStarts' = nStarts + 1
    /\ IF ~self.have_buffer_info
       THEN /\ self' = [self EXCEPT !.should_start = TRUE,
                                    !.shall_be_immediate = immediate]
            /\ ops' = <<Op("start", Bit(immediate))>>
            /\ UNCHANGED <<bufs, frame_damage, committed, fault>>
       ELSE \E nRects \in 0..MaxRects :
              LET r == schedule_capture(self, immediate, nRects)
              IN  /\ self' = r.self
                  /\ ops' = <<Op("start", Bit(immediate))>> \o r.ops
                  /\ bufs' = IF r.acquired THEN Append(bufs, NewBuf) ELSE bufs
                  /\ frame_damage' = IF r.acquired THEN Taken(Len(bufs) + 1)
                                                   ELSE frame_damage
                  /\ committed' = committed + r.commits
                  /\ fault' = r.fault
    /\ Track
    /\ UNCHANGED <<dialect, dmabuf_build, handle, pool, neg, nCallbacks,
                   sessionDone, cursors, drmSeen, sent>>

\* faulty variant: stop gives the in-flight buffer back to the pool
ext_screencopy_stop_Mut ==
    /\ Live
    /\ ops' = <<Op("stop", 0)>>
              \o (IF self.buffer # 0 THEN <<Op("pool_release", self.buffer)>>
                                     ELSE <<>>)
    /\ self' = [self EXCEPT !.buffer = 0]
    /\ bufs' = IF self.buffer # 0 THEN [bufs EXCEPT ![self.buffer].r = @ + 1]
                                  ELSE bufs
    /\ Track
    /\ UNCHANGED <<dialect, dmabuf_build, handle, pool, committed, neg,
                   nStarts, nCallbacks, sessionDone, cursors, drmSeen,
                   frame_damage, sent, fault>>

\* "Nothing to stop?"
ext_screencopy_stop ==
    /\ Live
    /\ ops' = <<Op("stop", 0)>>
    /\ Track
    /\ UNCHANGED <<dialect, dmabuf_build, handle, self, pool, committed, neg,
                   bufs, nStarts, nCallbacks, sessionDone, cursors, drmSeen,
                   frame_damage, sent, fault>>

\* ------------------------------------------------------ constraint events
SessionEvents == Live /\ self.session = "open"

\* A round of constraint events: the shared-memory format, the hardware
\* format (each optional), the buffer size, then done.
session_handle_format_shm(format) ==
    /\ SessionEvents
    /\ ~neg.shm /\ ~neg.drm /\ ~neg.dims
    /\ self' = [self EXCEPT !.have_wl_shm = TRUE, !.wl_shm_format = format]
    /\ neg' = [neg EXCEPT !.shm = TRUE]
    /\ ops' = <<Op("format_shm", format)>>
    /\ Track
    /\ UNCHANGED <<dialect, dmabuf_build, handle, pool, committed, bufs,
                   nStarts, nCallbacks, sessionDone, cursors, drmSeen, frame_damage,
                   sent, fault>>

session_handle_format_drm(format) ==
    /\ SessionEvents
    /\ ~neg.drm /\ ~neg.dims
    /\ self' = IF dmabuf_build
               THEN [self EXCEPT !.have_linux_dmabuf = TRUE,
                                 !.dmabuf_format = format]
               ELSE self
    /\ neg' = [neg EXCEPT !.drm = TRUE]
    /\ ops' = <<Op("format_drm", format)>>
    /\ Track
    /\ drmSeen' = TRUE
    /\ UNCHANGED <<dialect, dmabuf_build, handle, pool, committed, bufs,
                   nStarts, nCallbacks, sessionDone, cursors, frame_damage,
                   sent, fault>>

\* (uint32_t arithmetic; the widths drawn are far below 2^30, so width * 4
\* does not wrap)
session_handle_dimensions(w, h) ==
    /\ SessionEvents
    /\ ~neg.dims
    /\ self' = [self EXCEPT !.width = w, !.height = h,
                            !.wl_shm_stride = w * 4]
    /\ neg' = [neg EXCEPT !.dims = TRUE]
    /\ ops' = <<Op("dimensions", w)>>
    /\ Track
    /\ UNCHANGED <<dialect, dmabuf_build, handle, pool, committed, bufs,
                   nStarts, nCallbacks, sessionDone, cursors, drmSeen, frame_damage,
                   sent, fault>>

\* faulty variant: the handle's enable flag is not looked at
ResizedPool_Mut(s) ==
    IF dmabuf_build /\ s.have_linux_dmabuf
    THEN [alive |-> TRUE, type |-> "dmabuf", width |-> s.width,
          height |-> s.height, stride |-> 0, format |-> s.dmabuf_format]
    ELSE [alive |-> TRUE, type |-> "shm", width |-> s.width,
          height |-> s.height, stride |-> s.wl_shm_stride,
          format |-> s.wl_shm_format]

\* wv_buffer_pool_resize(pool, type, width, height, stride, format) as chosen
\* by session_handle_constraints_done
ResizedPool(s) ==
    IF dmabuf_build /\ s.have_linux_dmabuf /\ s.enable_linux_dmabuf
    THEN [alive |-> TRUE, type |-> "dmabuf", width |-> s.width,
          height |-> s.height, stride |-> 0, format |-> s.dmabuf_format]
    ELSE [alive |-> TRUE, type |-> "shm", width |-> s.width,
          height |-> s.height, stride |-> s.wl_shm_stride,
          format |-> s.wl_shm_format]

\* faulty variant: the deferred capture forgets the recorded immediate flag
DeferredImmediate_Mut(s) == FALSE

\* the immediate argument of the deferred capture
DeferredImmediate(s) == s.shall_be_immediate

\* faulty variant: the pending start stays recorded after it was issued
ClearDeferred_Mut(s) == [s EXCEPT !.shall_be_immediate = FALSE]

\* self->should_start = false; self->shall_be_immediate = false;
ClearDeferred(s) ==
    [s EXCEPT !.should_start = FALSE, !.shall_be_immediate = FALSE]

\* the compositor ends a round of constraint events that named the buffer
\* size and at least one format
session_handle_constraints_done ==
    /\ SessionEvents
    /\ neg.dims /\ (neg.shm \/ neg.drm)
    /\ neg' = NoNeg
    /\ sessionDone' = TRUE
    /\ pool' = ResizedPool(self)
    /\ IF self.should_start
       THEN \E nRects \in 0..MaxRects :
              LET r == schedule_capture(self, DeferredImmediate(self), nRects)
              IN  /\ self' = [ClearDeferred(r.self) EXCEPT
                                            !.have_buffer_info = TRUE]
                  /\ ops' = <<Op("constraints_done", 0), Op("pool_resize", 0)>>
                            \o r.ops
                  /\ bufs' = IF r.acquired THEN Append(bufs, NewBuf) ELSE bufs
                  /\ frame_damage' = IF r.acquired THEN Taken(Len(bufs) + 1)
                                                   ELSE frame_damage
                  /\ committed' = committed + r.commits
                  /\ fault' = r.fault
       ELSE /\ self' = [self EXCEPT !.have_buffer_info = TRUE]
            /\ ops' = <<Op("constraints_done", 0), Op("pool_resize", 0)>>
            /\ UNCHANGED <<bufs, frame_damage, committed, fault>>
    /\ Track
    /\ UNCHANGED <<dialect, dmabuf_build, handle, nStarts, nCallbacks,
                   cursors, drmSeen, sent>>

\* ---------------------------------------------------- ready / failed events
Deliver(b)  == [bufs EXCEPT ![b].d = @ + 1]
Release(b)  == [bufs EXCEPT ![b].r = @ + 1]

\* what the ready handler does with in-flight buffer b, in order
ReadyOps(b, cursorMode) ==
    <<Op("damage_all", Bit(cursorMode)), Op("clear_buffer_damage", b),
      Op("buffer_null", 0), Op("on_done_done", b)>>

\* Session-oriented dialect: the compositor answers a commit on the session.
session_handle_ready ==
    /\ dialect = "session"
    /\ SessionEvents
    /\ committed > 0
    /\ committed' = committed - 1
    /\ IF self.buffer = 0
       THEN /\ fault' = "assert"
            /\ ops' = <<Op("ready", 0)>>
            /\ UNCHANGED <<self, bufs, nCallbacks, frame_damage, sent>>
       ELSE /\ self' = [self EXCEPT !.buffer = 0]
            /\ bufs' = Deliver(self.buffer)
            /\ nCallbacks' = nCallbacks + 1
            /\ ops' = <<Op("ready", 0)>> \o ReadyOps(self.buffer, self.capture_cursor)
            /\ frame_damage' = Dropped(self.buffer)
            /\ sent' = {}
            /\ UNCHANGED fault
    /\ Track
    /\ UNCHANGED <<dialect, dmabuf_build, handle, pool, neg, nStarts,
                   sessionDone, cursors, drmSeen>>

\* faulty variant: every failure reason reopens the session
NeedsReinit_Mut(reason) == TRUE

\* reason == ..._FAILURE_REASON_INVALID_BUFFER / _BUFFER_CONSTRAINTS
NeedsReinit(reason) == reason = "invalid"

\* faulty variant: the callback fires before the buffer goes back to the pool
FailedOps_Mut(b, pre, reinit) ==
    pre \o <<Op("on_done_failed", 0), Op("pool_release", b),
             Op("buffer_null", 0)>> \o reinit

\* what the failed handler does with in-flight buffer b after the ops pre,
\* reinit being the ops of the session reinit (empty when there is none)
FailedOps(b, pre, reinit) ==
    pre \o <<Op("pool_release", b), Op("buffer_null", 0)>> \o reinit
        \o <<Op("on_done_failed", 0)>>

\* The failed handler from assert(self->buffer) on.
FailedBody(reason, srcOk, curOk, sessOk, pre) ==
    LET b  == self.buffer
        s1 == [self EXCEPT !.buffer = 0, !.frame = "null"]
        r  == init_session(s1, srcOk, curOk, sessOk)
    IN  /\ bufs' = Release(b)
        /\ frame_damage' = Dropped(b)
        /\ sent' = {}
        /\ nCallbacks' = nCallbacks + 1
        /\ IF NeedsReinit(reason)
           THEN /\ self' = r.self
                /\ ops' = <<Op("failed", ReasonCode(reason))>>
                          \o FailedOps(b, pre, r.ops)
                /\ cursors' = cursors + CursorsOpened(r.ops)
                /\ committed' = 0
                /\ neg' = NoNeg
                /\ sessionDone' = FALSE
           ELSE /\ self' = s1
                /\ ops' = <<Op("failed", ReasonCode(reason))>>
                          \o FailedOps(b, pre, <<>>)
                /\ committed' = committed - 1
                /\ UNCHANGED <<neg, sessionDone, cursors>>
        /\ UNCHANGED fault

\* the compositor's answers to the reinit are drawn only when there is one
ReinitInputs(reason, srcOk, curOk, sessOk) ==
    /\ ~NeedsReinit(reason) => srcOk /\ curOk /\ sessOk
    /\ ~self.capture_cursor \/ dialect = "frame" => curOk

session_handle_failed(reason) ==
    /\ dialect = "session"
    /\ SessionEvents
    /\ committed > 0
    /\ IF self.buffer = 0
       THEN /\ fault' = "assert"
            /\ ops' = <<Op("failed", ReasonCode(reason))>>
            /\ committed' = committed - 1
            /\ UNCHANGED <<self, bufs, nCallbacks, neg, sessionDone, cursors,
                           frame_damage, sent>>
       ELSE \E srcOk \in BOOLEAN, curOk \in BOOLEAN, sessOk \in BOOLEAN :
              /\ ReinitInputs(reason, srcOk, curOk, sessOk)
              /\ FailedBody(reason, srcOk, curOk, sessOk, <<>>)
    /\ Track
    /\ UNCHANGED <<dialect, dmabuf_build, handle, pool, nStarts, drmSeen>>

\* Frame-based dialect: the events arrive on the frame object of the capture.
FrameEvents == dialect = "frame" /\ Live /\ self.frame = "open"

\* faulty variant: the frame object is destroyed but the pointer is kept
frame_handle_ready_Mut ==
    /\ FrameEvents
    /\ committed' = committed - 1
    /\ self' = [self EXCEPT !.buffer = 0]
    /\ bufs' = Deliver(self.buffer)
    /\ nCallbacks' = nCallbacks + 1
    /\ ops' = <<Op("ready", 0), Op("frame_destroy", 0)>>
              \o ReadyOps(self.buffer, self.capture_cursor)
    /\ frame_damage' = Dropped(self.buffer)
    /\ sent' = {}
    /\ Track
    /\ UNCHANGED <<dialect, dmabuf_build, handle, pool, neg, nStarts,
                   sessionDone, cursors, drmSeen, fault>>

frame_handle_ready ==
    /\ FrameEvents
    /\ committed' = committed - 1
    /\ self' = [self EXCEPT !.frame = "null", !.buffer = 0]
    /\ bufs' = Deliver(self.buffer)
    /\ nCallbacks' = nCallbacks + 1
    /\ ops' = <<Op("ready", 0), Op("frame_destroy", 0), Op("frame_null", 0)>>
              \o ReadyOps(self.buffer, self.capture_cursor)
    /\ frame_damage' = Dropped(self.buffer)
    /\ sent' = {}
    /\ Track
    /\ UNCHANGED <<dialect, dmabuf_build, handle, pool, neg, nStarts,
                   sessionDone, cursors, drmSeen, fault>>

frame_handle_failed(reason) ==
    /\ FrameEvents
    /\ \E srcOk \in BOOLEAN, curOk \in BOOLEAN, sessOk \in BOOLEAN :
          /\ ReinitInputs(reason, srcOk, curOk, sessOk)
          /\ FailedBody(reason, srcOk, curOk, sessOk,
                        <<Op("frame_destroy", 0), Op("frame_null", 0)>>)
    /\ Track
    /\ UNCHANGED <<dialect, dmabuf_build, handle, pool, nStarts, drmSeen>>

\* ------------------------------------------------------------ damage events
\* wv_buffer_damage_rect(buffer, x, y, width, height): the rectangle is added
\* to the frame-damage region of the buffer
wv_buffer_damage_rect(b, rect) ==
    [frame_damage EXCEPT ![b] = @ \cup {rect}]

\* session_handle_damage / frame_handle_damage: the rectangle goes to
\* self->buffer, whichever buffer that is
DamageBody(rect) ==
    /\ IF self.buffer = 0
       THEN fault' = "null_deref" /\ UNCHANGED frame_damage
       ELSE frame_damage' = wv_buffer_damage_rect(self.buffer, rect)
            /\ UNCHANGED fault
    /\ sent' = sent \cup {rect}
    /\ ops' = <<Op("damage", rect)>>
    /\ Track
    /\ UNCHANGED <<dialect, dmabuf_build, handle, self, pool, committed, neg,
                   bufs, nStarts, nCallbacks, sessionDone, cursors, drmSeen>>

\* Session-oriented dialect: damage events arrive on the session, between a
\* commit and its ready event.
session_handle_damage(rect) ==
    /\ dialect = "session"
    /\ SessionEvents
    /\ committed > 0
    /\ DamageBody(rect)

\* Frame-based dialect: they arrive on the frame object.
frame_handle_damage(rect) ==
    /\ FrameEvents
    /\ DamageBody(rect)

\* ------------------------------------------------------------ cursor events
\* A live handle in cursor mode has a cursor session with cursor_listener
\* added to it: in the session-oriented dialect its creation opened one
\* (line 143) and added the listener (line 166), and none is ever destroyed;
\* the frame-based dialect opens none and its listener is commented out.
CursorListening == dialect = "session"

\* cursor_handle_enter / _leave / _hotspot: the callback is called if set
CursorCallback(cb, registered) ==
    IF registered THEN <<Op(cb, 0)>> ELSE <<>>

\* A cursor event of the compositor for a handle created in cursor mode;
\* handlerOps is what the handler of the event does, and it runs only when
\* the listener is there to call it.
CursorEvent(event, registered, handlerOps) ==
    /\ Live
    /\ self.capture_cursor
    /\ ops' = <<Op(event, Bit(registered))>>
              \o (IF CursorListening THEN handlerOps ELSE <<>>)
    /\ Track
    /\ UNCHANGED <<dialect, dmabuf_build, handle, self, pool, committed, neg,
                   bufs, nStarts, nCallbacks, sessionDone, cursors, drmSeen,
                   frame_damage, sent, fault>>

\* registered: parent.cursor_enter (_leave, _hotspot) is set
cursor_handle_enter(registered) ==
    CursorEvent("cursor_enter", registered,
                CursorCallback("on_cursor_enter", registered))

cursor_handle_leave(registered) ==
    CursorEvent("cursor_leave", registered,
                CursorCallback("on_cursor_leave", registered))

cursor_handle_hotspot(registered) ==
    CursorEvent("cursor_hotspot", registered,
                CursorCallback("on_cursor_hotspot", registered))

\* "Don't care"
cursor_handle_position ==
    CursorEvent("cursor_position", FALSE, <<>>)

\* ----------------------------------------------------------------- destroy
\* faulty variant: destroy forgets the in-flight buffer
DestroyRelease_Mut(b) == <<>>

\* if (self->buffer) wv_buffer_pool_release(self->pool, self->buffer)
DestroyRelease(b) ==
    IF b # 0 THEN <<Op("pool_release", b)>> ELSE <<>>

Released(o) == IF o # <<>> THEN Release(o[1].arg) ELSE bufs

\* the calls of ext_screencopy_destroy on struct value s, in order
Sess_DestroyOps(s) ==
    (IF s.session # "null" THEN <<Op("session_destroy", 0)>> ELSE <<>>)
    \o DestroyRelease(s.buffer) \o <<Op("free", 0)>>

Frame_DestroyOps(s) ==
    (IF s.frame # "null" THEN <<Op("frame_destroy", 0)>> ELSE <<>>)
    \o (IF s.session # "null" THEN <<Op("session_destroy", 0)>> ELSE <<>>)
    \o DestroyRelease(s.buffer) \o <<Op("free", 0)>>

Sess_ext_screencopy_destroy ==
    /\ dialect = "session"
    /\ Live
    /\ IF self.session = "closed"
       THEN /\ fault' = "use_after_free"
            /\ ops' = <<Op("destroy", self.buffer), Op("session_destroy", 0)>>
            /\ UNCHANGED <<handle, self, bufs, committed, neg, sessionDone,
                           drmSeen, frame_damage, sent>>
       ELSE /\ handle' = "destroyed"
            /\ ops' = <<Op("destroy", self.buffer)>> \o Sess_DestroyOps(self)
            /\ bufs' = Released(DestroyRelease(self.buffer))
            /\ self' = ZeroSelf
            /\ committed' = 0
            /\ neg' = NoNeg
            /\ sessionDone' = FALSE
            /\ drmSeen' = FALSE
            /\ frame_damage' = Dropped(self.buffer)
            /\ sent' = {}
            /\ UNCHANGED fault
    /\ Track
    /\ UNCHANGED <<dialect, dmabuf_build, pool, nStarts, nCallbacks, cursors>>

Frame_ext_screencopy_destroy ==
    /\ dialect = "frame"
    /\ Live
    /\ handle' = "destroyed"
    /\ ops' = <<Op("destroy", self.buffer)>> \o Frame_DestroyOps(self)
    /\ bufs' = Released(DestroyRelease(self.buffer))
    /\ self' = ZeroSelf
    /\ committed' = 0
    /\ neg' = NoNeg
    /\ sessionDone' = FALSE
    /\ drmSeen' = FALSE
    /\ frame_damage' = Dropped(self.buffer)
    /\ sent' = {}
    /\ Track
    /\ UNCHANGED <<dialect, dmabuf_build, pool, nStarts, nCallbacks, cursors,
                   fault>>

\* ----------------------------------------------------------- specification
Next ==
    \/ screencopy_create
    \/ screencopy_create_cursor
    \/ \E immediate \in BOOLEAN : ext_screencopy_start(immediate)
    \/ ext_screencopy_stop
    \/ \E f \in ShmFormats : session_handle_format_shm(f)
    \/ \E f \in DrmFormats : session_handle_format_drm(f)
    \/ \E w \in Widths, h \in Heights : session_handle_dimensions(w, h)
    \/ session_handle_constraints_done
    \/ session_handle_ready
    \/ \E reason \in {"ordinary", "invalid"} : session_handle_failed(reason)
    \/ frame_handle_ready
    \/ \E reason \in {"ordinary", "invalid"} : frame_handle_failed(reason)
    \/ Sess_ext_screencopy_destroy
    \/ Frame_ext_screencopy_destroy

Spec == Init /\ [][Next]_vars

\* the same with the damage events of an outstanding capture
NextDamage ==
    \/ Next
    \/ \E rect \in DamageRects : session_handle_damage(rect)
    \/ \E rect \in DamageRects : frame_handle_damage(rect)

DamageSpec == Init /\ [][NextDamage]_vars

\* the same with the cursor events of a handle created in cursor mode
NextCursor ==
    \/ Next
    \/ \E registered \in BOOLEAN : cursor_handle_enter(registered)
    \/ \E registered \in BOOLEAN : cursor_handle_leave(registered)
    \/ \E registered \in BOOLEAN : cursor_handle_hotspot(registered)
    \/ cursor_handle_position

CursorSpec == Init /\ [][NextCursor]_vars

\* =================================================================== claims
CountIn(seq, names) == Cardinality({i \in 1..Len(seq) : seq[i].op \in names})
CommitNames == {"commit", "frame_capture"}
\* buffers taken from the pool and neither delivered nor released
InFlight == {i \in 1..Len(bufs) : bufs[i].d = 0 /\ bufs[i].r = 0}

\* C1: in both dialects at most one acquired buffer is neither delivered to
\* the completion callback nor released to the pool, in every reachable state.
C1_AtMostOneInFlight == Cardinality(InFlight) <= 1

\* C2: every acquired buffer is delivered or released, never both, and once
\* the handle is destroyed never neither (no leak, no double release).
C2_DeliveredOrReleased ==
    /\ \A i \in 1..Len(bufs) : bufs[i].d + bufs[i].r <= 1
    /\ handle = "destroyed" => \A i \in 1..Len(bufs) : bufs[i].d + bufs[i].r = 1

\* C3: the start that follows an invalidating failure acquires and attaches
\* no buffer, and a buffer is acquired, attached or committed only on a
\* protocol session that has delivered its negotiation-complete event.
C3_RenegotiatesAfterInvalid ==
    /\ prevFailed = "invalid" /\ Handler = "start"
          => ~HasOp("pool_acquire") /\ ~HasOp("attach_buffer")
    /\ HasOp("pool_acquire") \/ HasOp("attach_buffer") \/ CountIn(ops, CommitNames) > 0
          => sessionDone

\* C4, first part: a start before the negotiation-complete event acquires
\* nothing (nor does any format/dimension event) and records its immediate
\* value.
C4_NothingBeforeDone ==
    /\ handle = "live" /\ ~self.have_buffer_info
          => bufs = <<>> /\ self.buffer = 0 /\ committed = 0
    /\ Handler = "start" /\ ~self.have_buffer_info
          => /\ ops = <<Op("start", Bit(self.shall_be_immediate))>>
             /\ self.should_start
\* C4, second part: the negotiation-complete event that finds a start pending
\* begins exactly one capture (one acquire, one attach, one commit) with the
\* immediate value the deferred start asked for.
C4_DoneStartsOne ==
    self.should_start /\ Handler' = "constraints_done"
       => /\ CountIn(ops', {"pool_acquire"}) = 1
          /\ CountIn(ops', {"attach_buffer"}) = 1
          /\ CountIn(ops', CommitNames) = 1
          /\ CountIn(ops', {"schedule_capture"}) = 1
          /\ ops'[3] = Op("schedule_capture", Bit(self.shall_be_immediate))
          /\ Len(bufs') = Len(bufs) + 1
          /\ committed' = 1
          /\ ~self'.should_start /\ ~self'.shall_be_immediate
\* C4: nothing is acquired before the negotiation-complete event, which then
\* begins exactly one capture with the deferred start's immediate value.
C4_DeferredStart == []C4_NothingBeforeDone /\ [][C4_DoneStartsOne]_vars
\* a deferred start(immediate = true) has just been issued by constraints_done
C4_Witness ==
    /\ Handler = "constraints_done"
    /\ HasOp("pool_acquire")
    /\ ops[3] = Op("schedule_capture", 1)

\* C5: the completion callback runs exactly once per start call: never more
\* callbacks than starts, and as many once no capture is outstanding and no
\* deferred start is pending.
C5_OneCallbackPerStart ==
    /\ nCallbacks <= nStarts
    /\ Live /\ committed = 0 /\ ~self.should_start => nCallbacks = nStarts

\* C6: in both dialects a start issued while a capture is outstanding ends in
\* an assertion failure, acquires no buffer and keeps the in-flight reference.
C6_SecondStartAsserts ==
    [][nStarts' = nStarts + 1 /\ committed > 0
         => fault' = "assert" /\ bufs' = bufs /\ self'.buffer = self.buffer]_vars

\* C7: every scheduled capture ends in a commit whose option carries the
\* immediate choice: wait-for-damage (ON_DAMAGE) exactly when immediate is
\* false, in both dialects, for direct and deferred starts.
C7_CommitCarriesImmediate ==
    \A i \in 1..Len(ops) :
        ops[i].op = "schedule_capture" /\ fault = "none"
           => ops[Len(ops)] = Op("commit", CommitFlags(ops[i].arg = 1))

\* the compositor supplied the image source and the capture session
Reopened ==
    \E i \in 1..Len(ops) :
        ops[i].op \in {"capture", "create_session", "get_screencopy_session"}
        /\ ops[i].arg = 1
\* C8, the part about order: on a failed event the buffer is released and the
\* slot cleared before the callback, which gets result failed and no buffer;
\* for an invalidating reason the session is closed and its reopening
\* attempted before the callback.  A released buffer is never delivered.
C8_FailedCommon ==
    /\ \A i \in 1..Len(bufs) : bufs[i].r > 0 => bufs[i].d = 0
    /\ Handler = "failed" /\ HasOp("on_done_failed")
          => /\ CountOp("pool_release") = 1
             /\ CountOp("buffer_null") = 1
             /\ CountOp("on_done_failed") = 1
             /\ Pos("pool_release") < Pos("buffer_null")
             /\ Pos("buffer_null") < Pos("on_done_failed")
             /\ ops[Len(ops)] = Op("on_done_failed", 0)
             /\ ~HasOp("on_done_done")
             /\ self.buffer = 0
             /\ bufs[ops[Pos("pool_release")].arg] = [d |-> 0, r |-> 1]
             /\ HandlerArg = 1
                   => /\ HasOp("session_destroy") /\ HasOp("create_source")
                      /\ Pos("buffer_null") < Pos("session_destroy")
                      /\ Pos("session_destroy") < Pos("create_source")
                      /\ Pos("create_source") < Pos("on_done_failed")
\* C8 (as amended): the order above, and after an invalidating failure the
\* session is open again at the callback exactly when the compositor
\* supplied the image source and the capture session.
C8_FailedOrder ==
    /\ C8_FailedCommon
    /\ Handler = "failed" /\ HasOp("on_done_failed") /\ HandlerArg = 1
          => (self.session = "open" <=> Reopened)
\* C8 (as claimed): the order above, and after an invalidating failure the
\* session has been reopened when the callback is invoked.
C8_Original ==
    /\ C8_FailedCommon
    /\ Handler = "failed" /\ HasOp("on_done_failed") /\ HandlerArg = 1
          => self.session = "open"
\* an invalidating failure has been handled and the session reopened
C8_Witness ==
    /\ Handler = "failed" /\ HandlerArg = 1 /\ HasOp("on_done_failed")
    /\ self.session = "open"

\* session, format-known flag, dimensions and formats of struct value s
Negotiated(s) ==
    <<s.session, s.have_buffer_info, s.width, s.height, s.wl_shm_stride,
      s.wl_shm_format, s.have_wl_shm, s.have_linux_dmabuf, s.dmabuf_format>>
\* C9, state part: an ordinary failure reopens nothing; the start right after
\* it acquires a buffer and commits in that same call.
C9_State ==
    /\ Handler = "failed" /\ HandlerArg = 0 /\ HasOp("on_done_failed")
          => /\ ~HasOp("session_destroy") /\ ~HasOp("create_source")
             /\ self.session = "open" /\ self.have_buffer_info
    /\ prevFailed = "ordinary" /\ Handler = "start"
          => /\ CountOp("pool_acquire") = 1
             /\ CountOp("attach_buffer") = 1
             /\ CountIn(ops, CommitNames) = 1
             /\ self.buffer = Len(bufs)
             /\ fault = "none"
\* C9, step part: an ordinary failed event leaves the session, the negotiated
\* format and dimensions, the format-known flag and the pool as they were.
C9_Step ==
    Handler' = "failed" /\ HandlerArg' = 0
       => Negotiated(self') = Negotiated(self) /\ pool' = pool
             /\ sessionDone' = sessionDone
\* C9: an ordinary failure reopens nothing and leaves the negotiated format,
\* dimensions and format-known flag as they were; the start right after it
\* acquires a buffer and commits in that same call.
C9_OrdinaryFailure == []C9_State /\ [][C9_Step]_vars
\* a start directly after an ordinary failure has acquired a buffer
C9_Witness ==
    prevFailed = "ordinary" /\ Handler = "start" /\ HasOp("pool_acquire")

\* where the last handler destroyed the frame object or the capture session
ProtocolDestroys ==
    {i \in 1..Len(ops) : ops[i].op \in {"frame_destroy", "session_destroy"}}
\* C10, the part about the release: destroy with a capture outstanding
\* releases the in-flight buffer exactly once, before the handle is freed.
C10_Common ==
    Handler = "destroy" /\ HandlerArg # 0
       => /\ handle = "destroyed"
          /\ CountOp("pool_release") = 1
          /\ ops[Pos("pool_release")].arg = HandlerArg
          /\ bufs[HandlerArg] = [d |-> 0, r |-> 1]
          /\ ProtocolDestroys # {}
          /\ Pos("pool_release") < Pos("free")
\* C10 (as amended): destroy with a capture outstanding releases the
\* in-flight buffer exactly once, after the frame object and the capture
\* session are destroyed and before the handle is freed.
C10_DestroyReleases ==
    /\ C10_Common
    /\ Handler = "destroy" /\ HandlerArg # 0
          => \A i \in ProtocolDestroys : i < Pos("pool_release")
\* C10 (as claimed): destroy with a capture outstanding releases the
\* in-flight buffer exactly once, before the frame object and the capture
\* session are released.
C10_Original ==
    /\ C10_Common
    /\ Handler = "destroy" /\ HandlerArg # 0
          => \A i \in ProtocolDestroys : Pos("pool_release") < i
\* destroy has run with a buffer in flight
C10_Witness ==
    Handler = "destroy" /\ HandlerArg # 0 /\ handle = "destroyed"

\* C11: screencopy_create calls at most one backend's create, chosen from the
\* interfaces advertised at the call: the newer dialect when its capture
\* manager and its image-source manager are both advertised, otherwise the
\* older one when its manager is advertised, otherwise none and the handle is
\* null; with no capture protocol advertised the handle is always null.
C11_DispatchByAdvertised ==
    Handler = "screencopy_create" =>
        LET newer == HandlerArg \div 4 = 1 /\ (HandlerArg \div 2) % 2 = 1
            older == HandlerArg % 2 = 1
        IN  /\ CountIn(ops, {"create", "wlr_create"}) <= 1
            /\ newer => ops[2] = Op("create", 0) /\ handle \in {"live", "null"}
            /\ ~newer /\ older
                  => ops[2].op = "wlr_create" /\ handle \in {"wlr", "null"}
            /\ ~newer /\ ~older
                  => ops = <<Op("screencopy_create", HandlerArg)>>
                     /\ handle = "null"
\* the newer capture manager is advertised without its image-source manager
\* and the older backend has been used instead
C11_Witness ==
    Handler = "screencopy_create" /\ HandlerArg = 5 /\ handle = "wlr"

\* C17: screencopy_create_cursor returns null and calls nothing when the
\* implementation has no cursor entry point; otherwise it calls that
\* implementation's cursor creation, and nothing else, and returns its result.
C17_CreateCursorEntry ==
    Handler = "screencopy_create_cursor" =>
        /\ HandlerArg = 0
              => ops = <<Op("screencopy_create_cursor", 0)>> /\ handle = "null"
        /\ HandlerArg = 1
              => /\ ops[2] = Op("create", 1)
                 /\ CountIn(ops, {"create", "wlr_create"}) = 1
                 /\ handle \in {"live", "null"}
                 /\ handle = "null" <=> HasOp("free")
                 /\ handle = "live" => self.capture_cursor
\* the cursor entry point has been called and has returned a handle
C17_Witness ==
    Handler = "screencopy_create_cursor" /\ HandlerArg = 1 /\ handle = "live"

\* the compositor refused the image source, the cursor session or the
\* capture session during the last handler
Refused ==
    \E i \in 1..Len(ops) :
        ops[i].op \in {"create_source", "capture_cursor", "capture",
                       "create_session", "get_screencopy_session"}
        /\ ops[i].arg = 0
\* C12: when the compositor cannot supply the image source or the capture
\* session at creation, create and create_cursor return null, and by then the
\* pool is destroyed, the image source is destroyed and no capture session
\* and no cursor session is left open.
C12_CreateFailureReleases ==
    HasOp("create") =>
        /\ Refused => handle = "null"
        /\ handle = "null"
              => /\ CountOp("pool_create") = 1 /\ CountOp("pool_destroy") = 1
                 /\ Pos("pool_create") < Pos("pool_destroy")
                 /\ ~pool.alive
                 /\ HasOp("source_destroy") <=> Op("create_source", 1) \in
                                                 {ops[i] : i \in 1..Len(ops)}
                 /\ self.session = "null"
                 /\ cursors = 0

\* C16: at most one cursor session is open at any time, also after reinits,
\* and none is open once the handle is destroyed.
C16_OneCursorSession ==
    /\ cursors <= 1
    /\ handle = "destroyed" => cursors = 0

\* the pool after a negotiation-complete event handled in the current state,
\* hw telling whether the hardware buffer type is to be chosen
C13_Reconfigured(hw) ==
    /\ CountIn(ops', {"pool_resize"}) = 1
    /\ pool'.alive
    /\ pool'.width = self.width /\ pool'.height = self.height
    /\ IF hw
       THEN pool'.type = "dmabuf" /\ pool'.format = self.dmabuf_format
            /\ pool'.stride = 0
       ELSE pool'.type = "shm" /\ pool'.format = self.wl_shm_format
            /\ pool'.stride = self.width * 4
\* C13 (as amended): each negotiation-complete event reconfigures the pool to
\* the negotiated size, with the hardware type, the advertised hardware format
\* and stride 0 exactly when hardware-buffer support is compiled in, a
\* hardware format was advertised to the handle and hardware buffers are
\* enabled on it, and otherwise with the shared-memory type, the advertised
\* shared-memory format and stride width * 4.
C13_PoolReconfigured ==
    [][Handler' = "constraints_done"
         => C13_Reconfigured(dmabuf_build /\ drmSeen /\ self.enable_linux_dmabuf)]_vars
\* C13 (as claimed): the hardware type is chosen exactly when a hardware
\* format was advertised and hardware buffers are enabled on the handle.
C13_Original ==
    [][Handler' = "constraints_done"
         => C13_Reconfigured(drmSeen /\ self.enable_linux_dmabuf)]_vars
\* a negotiation-complete event has chosen hardware buffers
C13_Witness ==
    /\ Handler = "constraints_done"
    /\ pool.type = "dmabuf" /\ pool.stride = 0 /\ pool.width \in Widths

PosIn(seq, o) == CHOOSE i \in 1..Len(seq) : seq[i].op = o
\* C14: when a ready event hands a buffer to the completion callback, every
\* damage rectangle the compositor sent since the capture started is in that
\* buffer's frame-damage region, and the buffer's requested-damage region was
\* cleared after the last write to it and before the callback.
C14_DamageReachesBuffer ==
    [][Handler' = "ready" /\ CountIn(ops', {"on_done_done"}) = 1
         => /\ ops'[Len(ops')] = Op("on_done_done", self.buffer)
            /\ self.buffer \in DOMAIN frame_damage
            /\ sent \subseteq frame_damage[self.buffer]
            /\ CountIn(ops', {"clear_buffer_damage"}) = 1
            /\ ops'[PosIn(ops', "clear_buffer_damage")].arg = self.buffer
            /\ PosIn(ops', "damage_all") < PosIn(ops', "clear_buffer_damage")
            /\ PosIn(ops', "clear_buffer_damage") < PosIn(ops', "on_done_done")]_vars

\* what an event that reaches the callback cb, set or not, leaves in ops
C15_Forwarded(event, cb) ==
    Handler' = event
       => /\ ops' = <<Op(event, HandlerArg')>>
                    \o (IF HandlerArg' = 1 THEN <<Op(cb, 0)>> ELSE <<>>)
          /\ fault' = fault
\* C15: for a handle created in cursor mode, in both dialects, an enter, leave
\* or hotspot event calls its callback exactly once when the callback is set
\* and calls nothing, without fault, when it is not; a position event calls
\* nothing and changes no state of the session.
C15_CursorEvents ==
    [][/\ C15_Forwarded("cursor_enter", "on_cursor_enter")
       /\ C15_Forwarded("cursor_leave", "on_cursor_leave")
       /\ C15_Forwarded("cursor_hotspot", "on_cursor_hotspot")
       /\ Handler' = "cursor_position"
             => /\ ops' = <<Op("cursor_position", 0)>>
                /\ UNCHANGED <<handle, self, pool, committed, neg, bufs,
                               nCallbacks, cursors, frame_damage, fault>>]_vars

\* C18, first part: stop issues no request and changes nothing: what was
\* outstanding stays outstanding, its buffer neither released nor delivered.
C18_StopChangesNothing ==
    Handler' = "stop"
       => /\ ops' = <<Op("stop", 0)>>
          /\ UNCHANGED <<handle, self, pool, committed, neg, bufs, nStarts,
                         nCallbacks, sessionDone, cursors, drmSeen,
                         frame_damage, sent, fault>>
\* C18, second part: the ready or failed event of a capture that was
\* outstanding at the stop still invokes the completion callback, once.
C18_EventAfterStop ==
    Handler = "stop" /\ Handler' \in {"ready", "failed"} /\ self.buffer # 0
       => /\ nCallbacks' = nCallbacks + 1
          /\ CountIn(ops', {"on_done_done", "on_done_failed"}) = 1
          /\ bufs'[self.buffer].d + bufs'[self.buffer].r = 1
\* C18: in both dialects stop sends no protocol request and leaves the whole
\* session state as it was; a capture outstanding before it is outstanding
\* after it and its later ready/failed event still invokes the callback.
C18_StopIsNoOp == [][C18_StopChangesNothing /\ C18_EventAfterStop]_vars
\* stop has been called with a capture outstanding
C18_Witness ==
    Handler = "stop" /\ committed > 0 /\ self.buffer # 0
       /\ bufs[self.buffer] = [d |-> 0, r |-> 0]

\* where the last handler sent damage hints
C19_Hints == {i \in 1..Len(ops) : ops[i].op = "damage_buffer"}
\* C19: a scheduled capture issues, in this order, one buffer acquisition,
\* the domain tag, one attach, one damage hint per rectangle of the buffer's
\* requested-damage region, and one commit, which comes last: every hint lies
\* between the attach and the commit and their number is the region's.
C19_RequestOrder ==
    CountIn(ops, CommitNames) > 0 =>
        /\ CountOp("pool_acquire") = 1 /\ CountOp("set_domain") = 1
        /\ CountOp("attach_buffer") = 1 /\ CountIn(ops, CommitNames) = 1
        /\ CountOp("region_rectangles") = 1
        /\ Pos("pool_acquire") < Pos("set_domain")
        /\ Pos("set_domain") < Pos("attach_buffer")
        /\ ops[Pos("attach_buffer")].arg = ops[Pos("pool_acquire")].arg
        /\ ops[Len(ops)].op \in CommitNames
        /\ \A i \in C19_Hints : Pos("attach_buffer") < i /\ i < Len(ops)
        /\ Cardinality(C19_Hints) = ops[Pos("region_rectangles")].arg
        /\ {ops[i].arg : i \in C19_Hints} = 1..ops[Pos("region_rectangles")].arg
\* a capture has been committed for a buffer with damage to request
C19_Witness ==
    CountIn(ops, CommitNames) = 1 /\ C19_Hints # {}

\* the last handler was a ready or failed event that invoked the callback
C20_CalledBack ==
    Handler \in {"ready", "failed"}
    /\ CountIn(ops, {"on_done_done", "on_done_failed"}) = 1
\* C20, state part: the callback is the last thing a ready or failed handler
\* does, and by then the in-flight slot is cleared and, in the frame-based
\* dialect, the frame object is destroyed and its slot cleared.
C20_AtCallback ==
    C20_CalledBack =>
        /\ ops[Len(ops)].op \in {"on_done_done", "on_done_failed"}
        /\ self.buffer = 0 /\ self.frame = "null"
        /\ CountOp("buffer_null") = 1
        /\ dialect = "frame"
              => /\ CountOp("frame_null") = 1
                 /\ Pos("frame_destroy") < Pos("frame_null")
                 /\ Pos("frame_null") < Pos("buffer_null")
\* C20, step part: a start made from the callback (nothing runs between the
\* callback and the end of its handler) passes the no-capture-in-flight check
\* and takes a new buffer as a new capture.
C20_StartFromCallback ==
    C20_CalledBack /\ Handler' = "start"
       => /\ fault' # "assert"
          /\ CountIn(ops', {"pool_acquire"}) = 1
          /\ Len(bufs') = Len(bufs) + 1
          /\ self'.buffer = Len(bufs')
\* C20: when the completion callback is invoked, for done and for failed, the
\* session holds no in-flight buffer and no frame object, so a start called
\* from inside the callback is taken as a new capture and trips no assertion.
C20_CallbackState == []C20_AtCallback /\ [][C20_StartFromCallback]_vars
\* a start right after the callback of an invalidating failure has been
\* accepted in the frame-based dialect
C20_Witness ==
    /\ dialect = "frame" /\ prevFailed = "invalid"
    /\ Handler = "start" /\ self.frame = "open" /\ fault = "none"

\* the requests that are sent on the capture session or on a frame of it
C21_Requests ==
    {"attach_buffer", "damage_buffer", "commit", "create_frame",
     "frame_capture", "session_destroy"}
\* C21: every request a handler issues (attach, damage hint, commit, frame
\* creation, session destroy) goes to a capture session that is open when the
\* handler begins: no handler, and after a failed reopening no start and no
\* destroy, uses an absent or an already closed session, and no session is
\* closed twice.
C21_RequestsOnOpenSession ==
    [][/\ CountIn(ops', C21_Requests) > 0 => self.session = "open"
       /\ fault' \notin {"null_deref", "use_after_free"}]_vars

\* C22: the buffer type and format chosen at a negotiation-complete event
\* come from the format events of the open session alone.  Stated for the
\* first negotiation round of a session, where the events received since it
\* was opened are those of the round: the hardware type and format are chosen
\* exactly when this session advertised a hardware format (and hardware
\* buffers are compiled in and enabled), otherwise the shared-memory type with
\* the format this session advertised, or none when it advertised none.
C22_ChoiceFromOpenSession ==
    [][Handler' = "constraints_done" /\ ~sessionDone
         => LET hw == dmabuf_build /\ self.enable_linux_dmabuf /\ neg.drm
            IN  /\ pool'.type = IF hw THEN "dmabuf" ELSE "shm"
                /\ pool'.format = IF hw THEN self.dmabuf_format
                                  ELSE IF neg.shm THEN self.wl_shm_format
                                  ELSE 0]_vars

\* C23, state part: the start-deferred flag and the deferred immediate flag
\* are false whenever the format is known, and the immediate flag is only
\* recorded with a deferred start.
C23_FlagOnlyBeforeFormat ==
    /\ self.have_buffer_info => ~self.should_start /\ ~self.shall_be_immediate
    /\ self.shall_be_immediate => self.should_start
\* C23, step part: the flag is set only by a start made while the format is
\* not known; on a live handle it is cleared only by the negotiation-complete
\* event that issues the deferred capture, together with the immediate flag;
\* and a negotiation-complete event with no start pending reconfigures the
\* pool and acquires, attaches and commits nothing.
C23_FlagSteps ==
    /\ ~self.should_start /\ self'.should_start
          => /\ Handler' = "start"
             /\ ~self.have_buffer_info /\ ~self'.have_buffer_info
             /\ ops' = <<Op("start", Bit(self'.shall_be_immediate))>>
    /\ self.should_start /\ ~self'.should_start /\ handle' = "live"
          => /\ Handler' = "constraints_done"
             /\ CountIn(ops', {"schedule_capture"}) = 1
             /\ ~self'.shall_be_immediate
    /\ Handler' = "constraints_done" /\ ~self.should_start
          => /\ ops' = <<Op("constraints_done", 0), Op("pool_resize", 0)>>
             /\ pool'.alive /\ pool'.width = self.width
             /\ pool'.height = self.height
             /\ bufs' = bufs /\ committed' = committed
             /\ self'.buffer = self.buffer /\ self'.frame = self.frame
             /\ fault' = fault
\* C23: the start-deferred flag is set only while the format is not known, is
\* false whenever it is known and is cleared with the deferred immediate flag
\* when the deferred capture is issued; so a negotiation-complete event with
\* no start pending, also a repeated one while a capture is outstanding,
\* reconfigures the pool and neither acquires a buffer nor commits a capture.
C23_StartDeferredFlag == []C23_FlagOnlyBeforeFormat /\ [][C23_FlagSteps]_vars
\* a negotiation-complete event has arrived again while a capture is
\* outstanding and has only reconfigured the pool
C23_Witness ==
    /\ Handler = "constraints_done" /\ ~HasOp("pool_acquire")
    /\ committed > 0 /\ self.buffer # 0
    /\ bufs[self.buffer] = [d |-> 0, r |-> 0]

\* C24: the pool created for a handle is destroyed exactly once, on the
\* failure path of create before it returns null or by destroy; once destroy
\* has returned, no pool, no frame object and no capture session of the
\* handle is left allocated.
C24_PoolDestroyedOnce ==
    /\ CountOp("pool_destroy") <= CountOp("pool_create")
    /\ handle = "null" /\ HasOp("pool_create")
          => CountOp("pool_destroy") = 1 /\ ~pool.alive
    /\ handle = "destroyed"
          => /\ ~pool.alive
             /\ self.session = "null" /\ self.frame = "null"
    /\ Handler = "destroy" /\ handle = "destroyed"
          => CountOp("pool_destroy") = 1

====
